---------------------------- MODULE Spec2Model ----------------------------
(* Backend process supervisor (electron/pythonManager.ts) and the log      *)
(* broadcaster of the Electron main process (electron/main.ts, second half *)
(* of src/electron/ipcHandlers.ts), modelled as state machines.            *)
(*                                                                         *)
(* One action is one run-to-completion turn of the Node.js event loop: the *)
(* synchronous code from an event (a call, an HTTP answer, a timer, a      *)
(* child-process event) up to the next await.                              *)
EXTENDS Integers, Sequences, FiniteSets, TLC

(***************************************************************************)
(* Bounds of the model                                                     *)
(***************************************************************************)
MaxCalls == 2
MaxProcs == 2
AnnouncedPort == 9100

(***************************************************************************)
(* Program constants                                                       *)
(***************************************************************************)
DefaultPort == 8765
maxRetries == 60
maxStopRetries == 20

Calls == 1..MaxCalls
Procs == 1..MaxProcs
Ports == {DefaultPort, AnnouncedPort}
ExitKinds == {"zero", "nonzero", "signal"}

VARIABLES
  process,          \* PythonManager.process: 0 is null, else the ChildProcess
  port,             \* PythonManager.port
  isRunning,        \* PythonManager.isRunning
  externalBackend,  \* PythonManager.externalBackend
  procs,            \* operating-system side of every ChildProcess object
  calls,            \* invocations of start() / stop() / restart()
  out,              \* effects of the last turn, in program order
  mainWindow,       \* main.ts mainWindow: 0 is null, else the BrowserWindow
  destroyed,        \* mainWindow.isDestroyed()
  rendererReady,    \* main.ts rendererReady
  logBuffer,        \* main.ts logBuffer
  emitted,          \* number of sendLog() calls so far; a log is its number
  delivered,        \* every webContents.send('log:message', log), in order
  nwin,             \* number of BrowserWindows created so far
  pythonManager,    \* main.ts pythonManager: FALSE is null
  appState,         \* the host application: running, quitting or exited
  platform,         \* process.platform
  bootstrap,        \* position of initializeApp()
  caller,           \* the main.ts function awaiting each supervisor call
  resumed,          \* the calls whose awaiting function has gone on
  closedHandled,    \* the last window whose closing raised window-all-closed
  host,             \* effects of main.ts so far: UI messages, logs, dialogs
  pipe,             \* per stream: what the child wrote and no 'data' has brought
  sent,             \* per stream: the lines the child has written, in order
  forwarded,        \* every sendLog() of the stream handlers, in order
  nchunks,          \* number of 'data' events handled so far
  req,              \* the request and the promise of a checkHealth() call
  logs,             \* useLogStore logs; an entry is its number of addition
  added,            \* number of addLog() calls so far
  notifications,    \* useUIStore notifications
  unreadNotificationCount,  \* useUIStore unreadNotificationCount
  issued            \* number of addNotification() calls so far

supVars == <<process, port, isRunning, externalBackend, procs, calls, out>>
logVars == <<mainWindow, destroyed, rendererReady, logBuffer, emitted,
             delivered, nwin>>
appVars == <<pythonManager, appState, platform, bootstrap, caller, resumed,
             closedHandled, host>>
ioVars == <<pipe, sent, forwarded, nchunks, req>>
storeVars == <<logs, added, notifications, unreadNotificationCount, issued>>
vars == <<supVars, logVars, appVars, ioVars, storeVars>>

(***************************************************************************)
(* Effects: log events, signals, spawns and HTTP requests                  *)
(***************************************************************************)
Log(level, msg) == [t |-> "log", a |-> level, b |-> msg, n |-> 0]
LogN(level, msg, k) == [t |-> "log", a |-> level, b |-> msg, n |-> k]
Kill(p, sig) == [t |-> "kill", a |-> sig, b |-> "", n |-> p]
SpawnEff(p) == [t |-> "spawn", a |-> "", b |-> "", n |-> p]
\* a health probe that ignores the announced port
ProbeDefaultPort(prt) ==
  [t |-> "http", a |-> "GET", b |-> "/health", n |-> DefaultPort]

Probe(prt) == [t |-> "http", a |-> "GET", b |-> "/health", n |-> prt]
ShutdownReq(prt) == [t |-> "http", a |-> "POST", b |-> "/api/shutdown", n |-> prt]
ArmTimer(c) == [t |-> "setTimeout", a |-> "", b |-> "", n |-> c]

IsProbe(e) == e.t = "http" /\ e.a = "GET"
IsSpawn(e) == e.t = "spawn"
IsKill(e) == e.t = "kill"
IsShutdownReq(e) == e.t = "http" /\ e.a = "POST"

Count(s, P(_)) == Cardinality({k \in 1..Len(s) : P(s[k])})

IdleCall ==
  [kind |-> "none", pc |-> "idle", i |-> 0, np |-> 0,
   child |-> 0, target |-> 0, timer |-> FALSE]

InitSup ==
  /\ process = 0
  /\ port = DefaultPort
  /\ isRunning = FALSE
  /\ externalBackend = FALSE
  /\ procs = [p \in Procs |-> "none"]
  /\ calls = [c \in Calls |-> IdleCall]
  /\ out = <<>>

\* a call that returned normally: the loop counter goes out of scope
Return(rec) == [rec EXCEPT !.pc = "done", !.i = 0, !.np = 0]

(***************************************************************************)
(* start(): the synchronous prefix, up to the first await                  *)
(***************************************************************************)
\* start() without the isRunning test of line 48
StartEntryRecUnguarded(rec, running) ==
  [rec EXCEPT !.pc = "start_probe", !.np = 1, !.i = 0]

StartEntryRec(rec, running) ==
  IF running
    THEN Return(rec)
    ELSE [rec EXCEPT !.pc = "start_probe", !.np = 1, !.i = 0]

StartEntryOut(running, prt) ==
  IF running
    THEN <<Log("info", "already running")>>
    ELSE <<Probe(prt)>>

CallStart(c) ==
  /\ calls[c].pc = "idle"
  /\ calls' = [calls EXCEPT ![c] =
                 StartEntryRec([calls[c] EXCEPT !.kind = "start"], isRunning)]
  /\ out' = StartEntryOut(isRunning, port)
  /\ UNCHANGED <<process, port, isRunning, externalBackend, procs>>
  /\ UNCHANGED logVars
  /\ UNCHANGED appVars
  /\ UNCHANGED storeVars
  /\ UNCHANGED ioVars

(***************************************************************************)
(* start(): the attach-or-spawn decision after the first health probe      *)
(***************************************************************************)
FreeProcs == {p \in Procs : procs[p] = "none"}
NextProc == CHOOSE p \in FreeProcs : \A q \in FreeProcs : p <= q

\* the attach branch without the assignment of line 58
AttachFieldsUnflagged == [isRunning |-> TRUE, externalBackend |-> FALSE]

\* the fields written when the first probe answered healthy (lines 55-60)
AttachFields == [isRunning |-> TRUE, externalBackend |-> TRUE]

\* the effects of the spawn branch up to the first await of waitForReady
SpawnOut(p, prt) ==
  <<Log("info", "Starting Python backend"), SpawnEff(p),
    Log("info", "Waiting for Python backend to be ready..."), Probe(prt)>>

\* the 'error' listener of start() (lines 118-121).  A failed spawn emits
\* 'error' from process.nextTick: the listener runs right after the
\* synchronous part of start(), before any other event, and no 'exit'
\* event follows.  It logs and writes isRunning = false.
ErrorHandlerOut == <<Log("error", "Failed to start Python backend")>>

StartProbeResult(c, alreadyRunning, spawnOk) ==
  /\ calls[c].pc = "start_probe"
  /\ IF alreadyRunning
       THEN /\ isRunning' = AttachFields.isRunning
            /\ externalBackend' = AttachFields.externalBackend
            /\ calls' = [calls EXCEPT ![c] = Return(@)]
            /\ out' = <<Log("info", "already running externally")>>
            /\ UNCHANGED <<process, procs>>
       ELSE /\ FreeProcs # {}
            /\ process' = NextProc
            /\ procs' = [procs EXCEPT ![NextProc] =
                           IF spawnOk THEN "alive" ELSE "errored"]
            /\ calls' = [calls EXCEPT ![c].pc = "ready_probe",
                                      ![c].child = NextProc,
                                      ![c].i = 0,
                                      ![c].np = @ + 1]
            /\ out' = SpawnOut(NextProc, port)
                        \o (IF spawnOk THEN <<>> ELSE ErrorHandlerOut)
            /\ isRunning' = IF spawnOk THEN isRunning ELSE FALSE
            /\ UNCHANGED externalBackend
  /\ UNCHANGED port
  /\ UNCHANGED logVars
  /\ UNCHANGED appVars
  /\ UNCHANGED storeVars
  /\ UNCHANGED ioVars

(***************************************************************************)
(* waitForReady(): bounded polling of the health endpoint                  *)
(***************************************************************************)
\* the loop condition written "i <= this.maxRetries"
RetryExhaustedLate(i) == ~(i <= maxRetries)

\* the loop condition "i < this.maxRetries" after the increment, negated
RetryExhausted(i) == ~(i < maxRetries)

ReadyProbeResult(c, isReady) ==
  /\ calls[c].pc = "ready_probe"
  /\ IF isReady
       THEN /\ isRunning' = TRUE
            /\ calls' = [calls EXCEPT ![c] = Return(@)]
            /\ out' = <<Log("info", "Python backend is ready!")>>
       ELSE /\ calls' = [calls EXCEPT ![c].pc = "ready_sleep"]
            /\ out' = <<>>
            /\ UNCHANGED isRunning
  /\ UNCHANGED <<process, port, externalBackend, procs>>
  /\ UNCHANGED logVars
  /\ UNCHANGED appVars
  /\ UNCHANGED storeVars
  /\ UNCHANGED ioVars

ReadySleepDone(c) ==
  /\ calls[c].pc = "ready_sleep"
  /\ IF RetryExhausted(calls[c].i + 1)
       THEN /\ calls' = [calls EXCEPT ![c].pc = "failed", ![c].i = @ + 1]
            /\ out' = <<Log("error", "failed to start within 30 seconds")>>
       ELSE /\ calls' = [calls EXCEPT ![c].pc = "ready_probe",
                                      ![c].i = @ + 1,
                                      ![c].np = @ + 1]
            /\ out' = <<Probe(port)>>
  /\ UNCHANGED <<process, port, isRunning, externalBackend, procs>>
  /\ UNCHANGED logVars
  /\ UNCHANGED appVars
  /\ UNCHANGED storeVars
  /\ UNCHANGED ioVars

(***************************************************************************)
(* stop() and restart()                                                    *)
(***************************************************************************)
\* stop() without the "!this.process" test of line 220
StopBranchUnguarded(ext, proc) == IF ext THEN "external" ELSE "owned"

StopBranch(ext, proc) ==
  IF ext THEN "external" ELSE IF proc = 0 THEN "noprocess" ELSE "owned"

\* a restart() that returns after stop() without calling start()
StopDoneRecSkip(rec, running) == Return(rec)

\* what follows the settling of stop(): restart() goes on with start()
StopDoneRec(rec, running) ==
  IF rec.kind = "restart"
    THEN StartEntryRec(rec, running)
    ELSE Return(rec)

StopDoneOut(rec, running, prt) ==
  IF rec.kind = "restart" THEN StartEntryOut(running, prt) ELSE <<>>

\* a stop() that resolves right after sending SIGTERM
OwnedStopRecNoWait(rec, proc) ==
  Return([rec EXCEPT !.target = proc, !.timer = TRUE])

\* the owned branch of stop(): the promise resolves in once('exit')
OwnedStopRec(rec, proc) ==
  [rec EXCEPT !.pc = "stop_exit", !.target = proc, !.timer = TRUE]

StopEntry(c, kind) ==
  LET rec == [calls[c] EXCEPT !.kind = kind]
      branch == StopBranch(externalBackend, process)
  IN
  /\ calls[c].pc = "idle"
  /\ CASE branch = "external" ->
            /\ calls' = [calls EXCEPT ![c] = [rec EXCEPT !.pc = "stop_req"]]
            /\ out' = <<Log("info", "Stopping Python backend..."),
                        ShutdownReq(port)>>
            /\ UNCHANGED isRunning
       [] branch = "noprocess" ->
            /\ isRunning' = FALSE
            /\ calls' = [calls EXCEPT ![c] = StopDoneRec(rec, FALSE)]
            /\ out' = <<Log("info", "Stopping Python backend...")>>
                        \o StopDoneOut(rec, FALSE, port)
       [] branch = "owned" ->
            /\ calls' = [calls EXCEPT ![c] = OwnedStopRec(rec, process)]
            /\ out' = <<Log("info", "Stopping Python backend..."),
                        Kill(process, "SIGTERM"), ArmTimer(c)>>
            /\ UNCHANGED isRunning
  /\ UNCHANGED <<process, port, externalBackend, procs>>
  /\ UNCHANGED logVars
  /\ UNCHANGED appVars
  /\ UNCHANGED storeVars
  /\ UNCHANGED ioVars

CallStop(c) == StopEntry(c, "stop")

CallRestart(c) == StopEntry(c, "restart")

\* whether waitForStop() is entered after requestShutdown() (line 210)
PollAfterShutdown(shutdownRequested) == shutdownRequested

ShutdownResult(c, shutdownRequested) ==
  /\ calls[c].pc = "stop_req"
  /\ IF PollAfterShutdown(shutdownRequested)
       THEN /\ calls' = [calls EXCEPT ![c].pc = "stop_probe", ![c].i = 0]
            /\ out' = <<Probe(port)>>
            /\ UNCHANGED <<isRunning, externalBackend>>
       ELSE /\ isRunning' = FALSE
            /\ externalBackend' = FALSE
            /\ calls' = [calls EXCEPT ![c] = StopDoneRec(calls[c], FALSE)]
            /\ out' = StopDoneOut(calls[c], FALSE, port)
  /\ UNCHANGED <<process, port, procs>>
  /\ UNCHANGED logVars
  /\ UNCHANGED appVars
  /\ UNCHANGED storeVars
  /\ UNCHANGED ioVars

\* an external stop() that forgets to clear the External flag
ExternalStoppedFlagged(c) ==
  /\ isRunning' = FALSE
  /\ externalBackend' = externalBackend
  /\ calls' = [calls EXCEPT ![c] = StopDoneRec(calls[c], FALSE)]
  /\ out' = <<Log("info", "External backend stopped via API")>>
              \o StopDoneOut(calls[c], FALSE, port)

\* the tail of the external branch of stop(), after waitForStop() returned
ExternalStopped(c) ==
  /\ isRunning' = FALSE
  /\ externalBackend' = FALSE
  /\ calls' = [calls EXCEPT ![c] = StopDoneRec(calls[c], FALSE)]
  /\ out' = <<Log("info", "External backend stopped via API")>>
              \o StopDoneOut(calls[c], FALSE, port)

StopProbeResult(c, stillRunning) ==
  /\ calls[c].pc = "stop_probe"
  /\ IF stillRunning
       THEN /\ calls' = [calls EXCEPT ![c].pc = "stop_sleep"]
            /\ out' = <<>>
            /\ UNCHANGED <<isRunning, externalBackend>>
       ELSE ExternalStopped(c)
  /\ UNCHANGED <<process, port, procs>>
  /\ UNCHANGED logVars
  /\ UNCHANGED appVars
  /\ UNCHANGED storeVars
  /\ UNCHANGED ioVars

StopSleepDone(c) ==
  /\ calls[c].pc = "stop_sleep"
  /\ IF calls[c].i + 1 < maxStopRetries
       THEN /\ calls' = [calls EXCEPT ![c].pc = "stop_probe", ![c].i = @ + 1]
            /\ out' = <<Probe(port)>>
            /\ UNCHANGED <<isRunning, externalBackend>>
       ELSE ExternalStopped(c)
  /\ UNCHANGED <<process, port, procs>>
  /\ UNCHANGED logVars
  /\ UNCHANGED appVars
  /\ UNCHANGED storeVars
  /\ UNCHANGED ioVars

\* the escalation timer armed by stop() (lines 243-248)
TimerFire(c) ==
  /\ calls[c].timer
  /\ calls' = [calls EXCEPT ![c].timer = FALSE]
  /\ IF process # 0
       THEN /\ out' = <<Log("warn", "Force killing Python backend..."),
                        Kill(process, "SIGKILL")>>
            /\ procs' = [procs EXCEPT ![process] =
                           IF @ = "alive" THEN "killed" ELSE @]
       ELSE /\ out' = <<>>
            /\ UNCHANGED procs
  /\ UNCHANGED <<process, port, isRunning, externalBackend>>
  /\ UNCHANGED logVars
  /\ UNCHANGED appVars
  /\ UNCHANGED storeVars
  /\ UNCHANGED ioVars

(***************************************************************************)
(* Events of a spawned child process                                       *)
(***************************************************************************)
\* the level chosen by "code ? 'error' : 'info'": a signal exit has code null
ExitLevelTruthy(kind) == IF kind = "nonzero" THEN "error" ELSE "info"

ExitLevel(kind) == IF kind = "zero" THEN "info" ELSE "error"

ExitCode(kind) == CASE kind = "zero" -> 0 [] kind = "nonzero" -> 1 [] OTHER -> -1

Waiting(p) == {c \in Calls : calls[c].pc = "stop_exit" /\ calls[c].target = p}

RECURSIVE StoppedLogs(_, _)
StoppedLogs(k, W) ==
  IF k > MaxCalls THEN <<>>
  ELSE (IF k \in W THEN <<Log("info", "Python backend stopped")>> ELSE <<>>)
         \o StoppedLogs(k + 1, W)

RECURSIVE Continuations(_, _, _)
Continuations(k, W, prt) ==
  IF k > MaxCalls THEN <<>>
  ELSE (IF k \in W THEN StopDoneOut(calls[k], FALSE, prt) ELSE <<>>)
         \o Continuations(k + 1, W, prt)

\* the 'exit' listener of start() (lines 110-115), then the once('exit')
\* listeners of every stop() waiting on this process (lines 232-237)
ProcExit(p, kind) ==
  /\ procs[p] \in {"alive", "killed"}
  /\ procs' = [procs EXCEPT ![p] = "exited"]
  /\ isRunning' = FALSE
  /\ process' = 0
  /\ calls' = [c \in Calls |->
                 IF c \in Waiting(p) THEN StopDoneRec(calls[c], FALSE)
                                     ELSE calls[c]]
  /\ out' = <<LogN(ExitLevel(kind), "Python backend exited with code",
                   ExitCode(kind))>>
              \o StoppedLogs(1, Waiting(p))
              \o Continuations(1, Waiting(p), port)
  /\ UNCHANGED <<port, externalBackend>>
  /\ UNCHANGED logVars
  /\ UNCHANGED appVars
  /\ UNCHANGED storeVars
  /\ UNCHANGED ioVars

\* a stdout handler that logs the announcement without taking the port
ProcAnnounceLogged(p, prt) ==
  /\ procs[p] \in {"alive", "killed"}
  /\ port' = port
  /\ out' = <<LogN("info", "Backend will use port", prt),
              LogN("info", "BACKEND_PORT:", prt)>>
  /\ UNCHANGED <<process, isRunning, externalBackend, procs, calls>>
  /\ UNCHANGED logVars
  /\ UNCHANGED appVars
  /\ UNCHANGED storeVars
  /\ UNCHANGED ioVars

\* a stdout chunk holding the line BACKEND_PORT:<prt> (lines 79-95)
ProcAnnounce(p, prt) ==
  /\ procs[p] \in {"alive", "killed"}
  /\ port' = prt
  /\ out' = <<LogN("info", "Backend will use port", prt),
              LogN("info", "BACKEND_PORT:", prt)>>
  /\ UNCHANGED <<process, isRunning, externalBackend, procs, calls>>
  /\ UNCHANGED logVars
  /\ UNCHANGED appVars
  /\ UNCHANGED storeVars
  /\ UNCHANGED ioVars

\* a stderr chunk holding the same line (lines 98-107): the line is logged
\* at detectLogLevel(line, 'warn') and is not scanned for a port
ProcStderrAnnounce(p, prt) ==
  /\ procs[p] \in {"alive", "killed"}
  /\ out' = <<LogN("warn", "BACKEND_PORT:", prt)>>
  /\ UNCHANGED <<process, port, isRunning, externalBackend, procs, calls>>
  /\ UNCHANGED logVars
  /\ UNCHANGED appVars
  /\ UNCHANGED storeVars
  /\ UNCHANGED ioVars

(***************************************************************************)
(* Text: a string is the sequence of its characters                        *)
(***************************************************************************)
NL == "\n"
Whitespace == {" ", NL}

UpperCase == <<"A", "B", "C", "D", "E", "F", "G", "H", "I", "J", "K", "L", "M", "N", "O", "P", "Q", "R", "S", "T", "U", "V", "W", "X", "Y", "Z">>
LowerCase == <<"a", "b", "c", "d", "e", "f", "g", "h", "i", "j", "k", "l", "m", "n", "o", "p", "q", "r", "s", "t", "u", "v", "w", "x", "y", "z">>
Digits == <<"0", "1", "2", "3", "4", "5", "6", "7", "8", "9">>

\* one character of String.prototype.toLowerCase()
LowerChar(ch) ==
  IF \E k \in 1..Len(UpperCase) : UpperCase[k] = ch
    THEN LowerCase[CHOOSE k \in 1..Len(UpperCase) : UpperCase[k] = ch]
    ELSE ch

toLowerCase(s) == [k \in 1..Len(s) |-> LowerChar(s[k])]

startsWith(s, t) == Len(t) <= Len(s) /\ SubSeq(s, 1, Len(t)) = t

includes(s, t) ==
  \E k \in 0..(Len(s) - Len(t)) : SubSeq(s, k + 1, k + Len(t)) = t

\* String.prototype.trim() and trimStart()
RECURSIVE trimStart(_)
trimStart(s) ==
  IF s # <<>> /\ Head(s) \in Whitespace THEN trimStart(Tail(s)) ELSE s

RECURSIVE trim(_)
trim(s) ==
  IF s # <<>> /\ s[Len(s)] \in Whitespace
    THEN trim(SubSeq(s, 1, Len(s) - 1))
    ELSE trimStart(s)

\* s.split('\n')
RECURSIVE split(_)
split(s) ==
  IF \E k \in 1..Len(s) : s[k] = NL
    THEN LET k == CHOOSE j \in 1..Len(s) :
                    s[j] = NL /\ \A h \in 1..(j - 1) : s[h] # NL
         IN <<SubSeq(s, 1, k - 1)>> \o split(SubSeq(s, k + 1, Len(s)))
    ELSE <<s>>

IsDigit(ch) == \E k \in 1..Len(Digits) : Digits[k] = ch

DigitValue(ch) == (CHOOSE k \in 1..Len(Digits) : Digits[k] = ch) - 1

\* parseInt(digits, 10)
RECURSIVE parseInt(_)
parseInt(ds) ==
  IF ds = <<>> THEN 0
  ELSE 10 * parseInt(SubSeq(ds, 1, Len(ds) - 1)) + DigitValue(ds[Len(ds)])

\* a number in a template literal: its decimal digits
RECURSIVE Decimal(_)
Decimal(n) ==
  IF n < 10 THEN <<Digits[n + 1]>>
  ELSE Decimal(n \div 10) \o <<Digits[(n % 10) + 1]>>

(***************************************************************************)
(* detectLogLevel() (lines 131-155)                                        *)
(***************************************************************************)
infoPrefix == <<"i", "n", "f", "o", ":">>
infoPadded == <<"i", "n", "f", "o", ":", " ", " ", " ", " ">>
debugPrefix == <<"d", "e", "b", "u", "g", ":">>
errorPrefix == <<"e", "r", "r", "o", "r", ":">>
errorWord == <<"e", "r", "r", "o", "r">>
exceptionWord == <<"e", "x", "c", "e", "p", "t", "i", "o", "n">>
tracebackWord == <<"t", "r", "a", "c", "e", "b", "a", "c", "k">>
warningPrefix == <<"w", "a", "r", "n", "i", "n", "g", ":">>
warnPrefix == <<"w", "a", "r", "n", ":">>
warningWord == <<"w", "a", "r", "n", "i", "n", "g">>
warnWord == <<"w", "a", "r", "n">>

detectLogLevel(message, defaultLevel) ==
  LET lowerMessage == toLowerCase(message) IN
  IF startsWith(lowerMessage, infoPrefix) \/ includes(lowerMessage, infoPadded)
    THEN "info"
  ELSE IF startsWith(lowerMessage, debugPrefix)
    THEN "debug"
  ELSE IF \/ startsWith(lowerMessage, errorPrefix)
          \/ includes(lowerMessage, errorWord)
          \/ includes(lowerMessage, exceptionWord)
          \/ includes(lowerMessage, tracebackWord)
    THEN "error"
  ELSE IF \/ startsWith(lowerMessage, warningPrefix)
          \/ startsWith(lowerMessage, warnPrefix)
          \/ includes(lowerMessage, warningWord)
          \/ includes(lowerMessage, warnWord)
    THEN "warn"
  ELSE defaultLevel

(***************************************************************************)
(* The 'data' handlers of the child's stdout and stderr (lines 79-107)     *)
(***************************************************************************)
Streams == {"stdout", "stderr"}

\* the default of detectLogLevel() at the two call sites
DefaultLevel(s) == IF s = "stdout" THEN "info" ELSE "warn"

portToken == <<"B", "A", "C", "K", "E", "N", "D", "_", "P", "O", "R", "T", ":">>
willUsePort == <<"B", "a", "c", "k", "e", "n", "d", " ", "w", "i", "l", "l", " ", "u", "s", "e", " ", "p", "o", "r", "t", " ">>

\* line.match(/^BACKEND_PORT:(\d+)$/)
portMatch(line) ==
  /\ startsWith(line, portToken)
  /\ Len(line) > Len(portToken)
  /\ \A k \in (Len(portToken) + 1)..Len(line) : IsDigit(line[k])

\* parseInt(portMatch[1], 10)
MatchedPort(line) == parseInt(SubSeq(line, Len(portToken) + 1, Len(line)))

\* one sendLog(level, message) of a stream handler
Event(s, lvl, txt, site) ==
  [stream |-> s, level |-> lvl, text |-> txt, at |-> site]

\* this.port after the lines of one stdout chunk
RECURSIVE PortAfter(_, _)
PortAfter(lines, prt) ==
  IF lines = <<>> THEN prt
  ELSE PortAfter(Tail(lines),
                 IF portMatch(Head(lines)) THEN MatchedPort(Head(lines))
                                           ELSE prt)

\* the body of the loop over the lines of a chunk
LineEvents(s, line) ==
  IF line = <<>> THEN <<>>
  ELSE (IF s = "stdout" /\ portMatch(line)
          THEN <<Event(s, "info", willUsePort \o Decimal(MatchedPort(line)),
                       "announce")>>
          ELSE <<>>)
       \o <<Event(s, detectLogLevel(line, DefaultLevel(s)), line, "line")>>

RECURSIVE ChunkEvents(_, _)
ChunkEvents(s, lines) ==
  IF lines = <<>> THEN <<>>
  ELSE LineEvents(s, Head(lines)) \o ChunkEvents(s, Tail(lines))

\* data.toString().trim().split('\n')
ChunkLines(data) == split(trim(data))

\* the 'data' event of stream s brings the first n characters of the pipe
OnData(s, n) ==
  LET data == SubSeq(pipe[s], 1, n)
      lines == ChunkLines(data)
  IN
  /\ process # 0
  /\ n >= 1
  /\ n <= Len(pipe[s])
  /\ pipe' = [pipe EXCEPT ![s] = SubSeq(@, n + 1, Len(@))]
  /\ forwarded' = forwarded \o ChunkEvents(s, lines)
  /\ nchunks' = nchunks + 1
  /\ port' = IF s = "stdout" THEN PortAfter(lines, port) ELSE port
  /\ UNCHANGED <<process, isRunning, externalBackend, procs, calls, out>>
  /\ UNCHANGED <<sent, req>>
  /\ UNCHANGED logVars
  /\ UNCHANGED appVars
  /\ UNCHANGED storeVars

StdoutData(n) == OnData("stdout", n)

StderrData(n) == OnData("stderr", n)

\* the child writes one line, with its newline, to one of its streams
ChildWrites(s, line) ==
  /\ process # 0
  /\ procs[process] = "alive"
  /\ sent' = [sent EXCEPT ![s] = Append(@, line)]
  /\ pipe' = [pipe EXCEPT ![s] = @ \o line \o <<NL>>]
  /\ UNCHANGED <<forwarded, nchunks, req>>
  /\ UNCHANGED supVars
  /\ UNCHANGED logVars
  /\ UNCHANGED appVars
  /\ UNCHANGED storeVars

(***************************************************************************)
(* checkHealth() (lines 311-337): one http.request and the promise around  *)
(* it.  The promise takes the value of the first resolve(); the request    *)
(* may go on emitting events after it.                                     *)
(***************************************************************************)
MaxProbes == 3
UnusablePort == 70000

Statuses == {200, 204, 404, 500, 503}

\* the ports this.port can hold: the default one or one parsed from stdout
ProbePorts == {DefaultPort, AnnouncedPort, UnusablePort}

\* http.request() takes a port in 0..65535 and throws ERR_SOCKET_BAD_PORT,
\* synchronously, for any other number
UsablePort(prt) == prt >= 0 /\ prt < 65536

NoRequest == [n |-> 0, state |-> "none", promise |-> "none",
              value |-> FALSE, heard |-> <<>>]

Heard(kind, status) == [ev |-> kind, code |-> status]

\* a promise that takes the value of its last resolve()
resolveLast(r, v) == [r EXCEPT !.promise = "resolved", !.value = v]

\* resolve(v): a promise is settled once
resolve(r, v) ==
  IF r.promise = "pending"
    THEN [r EXCEPT !.promise = "resolved", !.value = v]
    ELSE r

\* a call of checkHealth(): the executor of the promise runs http.request
CheckHealth ==
  /\ req.promise # "pending"
  /\ req.n < MaxProbes
  /\ IF UsablePort(port)
       THEN /\ req' = [n |-> req.n + 1, state |-> "open",
                       promise |-> "pending", value |-> FALSE,
                       heard |-> <<>>]
            /\ out' = <<Probe(port)>>
       ELSE /\ req' = [n |-> req.n + 1, state |-> "none",
                       promise |-> "rejected", value |-> FALSE,
                       heard |-> <<>>]
            /\ out' = <<>>
  /\ UNCHANGED <<process, port, isRunning, externalBackend, procs, calls>>
  /\ UNCHANGED <<pipe, sent, forwarded, nchunks>>
  /\ UNCHANGED logVars
  /\ UNCHANGED appVars
  /\ UNCHANGED storeVars

\* the response callback: resolve(res.statusCode === 200)
OnResponse(status) ==
  /\ req.state = "open"
  /\ req' = [resolve(req, status = 200) EXCEPT
               !.state = "answered",
               !.heard = Append(@, Heard("response", status))]
  /\ UNCHANGED <<pipe, sent, forwarded, nchunks>>
  /\ UNCHANGED supVars
  /\ UNCHANGED logVars
  /\ UNCHANGED appVars
  /\ UNCHANGED storeVars

\* req.on('error'): resolve(false); also the error a destroyed request emits
OnError ==
  /\ req.state \in {"open", "answered", "destroyed"}
  /\ req' = [resolve(req, FALSE) EXCEPT
               !.state = "closed",
               !.heard = Append(@, Heard("error", 0))]
  /\ UNCHANGED <<pipe, sent, forwarded, nchunks>>
  /\ UNCHANGED supVars
  /\ UNCHANGED logVars
  /\ UNCHANGED appVars
  /\ UNCHANGED storeVars

\* req.on('timeout'): req.destroy(); resolve(false).  The response is never
\* read, so the socket can also time out after the response callback ran.
OnTimeout ==
  /\ req.state \in {"open", "answered"}
  /\ req' = [resolve(req, FALSE) EXCEPT
               !.state = "destroyed",
               !.heard = Append(@, Heard("timeout", 0))]
  /\ UNCHANGED <<pipe, sent, forwarded, nchunks>>
  /\ UNCHANGED supVars
  /\ UNCHANGED logVars
  /\ UNCHANGED appVars
  /\ UNCHANGED storeVars

\* no child has written anything and checkHealth() has not been called
InitIo ==
  /\ pipe = [s \in Streams |-> <<>>]
  /\ sent = [s \in Streams |-> <<>>]
  /\ forwarded = <<>>
  /\ nchunks = 0
  /\ req = NoRequest

(***************************************************************************)
(* The log broadcaster of the main process (main.ts)                       *)
(***************************************************************************)
MaxLogs == 3
MaxWindows == 2

InitLog ==
  /\ mainWindow = 0
  /\ destroyed = FALSE
  /\ rendererReady = FALSE
  /\ logBuffer = <<>>
  /\ emitted = 0
  /\ delivered = <<>>
  /\ nwin = 0

\* "mainWindow && !mainWindow.isDestroyed()"
WindowLive == mainWindow # 0 /\ ~destroyed

\* one webContents.send('log:message', log): the window it went to, the log,
\* and the function that sent it
Delivery(w, log, by) == [win |-> w, id |-> log, via |-> by]

\* the sends of flushLogBuffer(): one per buffered log, in buffer order
FlushSends(w, buf) ==
  [k \in 1..Len(buf) |-> Delivery(w, buf[k], "flushLogBuffer")]

\* flushLogBuffer() with the truncation outside the window test
FlushRestCleared(live, buf) == <<>>

\* what flushLogBuffer() leaves in the buffer ("logBuffer.length = 0")
FlushRest(live, buf) == IF live THEN <<>> ELSE buf

\* sendLog() without the window test
SendsLiveNoWindow(ready, live) == ready

\* sendLog() without the rendererReady test
SendsLiveUnready(ready, live) == live

\* the condition of sendLog() for sending instead of buffering
SendsLive(ready, live) == ready /\ live

\* sendLog(level, message, source)
SendLog ==
  /\ emitted < MaxLogs
  /\ emitted' = emitted + 1
  /\ IF SendsLive(rendererReady, WindowLive)
       THEN /\ delivered' = Append(delivered,
                                   Delivery(mainWindow, emitted + 1, "sendLog"))
            /\ UNCHANGED logBuffer
       ELSE /\ logBuffer' = Append(logBuffer, emitted + 1)
            /\ UNCHANGED delivered
  /\ UNCHANGED <<mainWindow, destroyed, rendererReady, nwin>>
  /\ UNCHANGED supVars
  /\ UNCHANGED appVars
  /\ UNCHANGED storeVars
  /\ UNCHANGED ioVars

\* ipcMain.on('log:rendererReady') with flushLogBuffer()
RendererReady ==
  /\ rendererReady' = TRUE
  /\ delivered' = IF WindowLive
                    THEN delivered \o FlushSends(mainWindow, logBuffer)
                    ELSE delivered
  /\ logBuffer' = FlushRest(WindowLive, logBuffer)
  /\ UNCHANGED <<mainWindow, destroyed, emitted, nwin>>
  /\ UNCHANGED supVars
  /\ UNCHANGED appVars
  /\ UNCHANGED storeVars
  /\ UNCHANGED ioVars

\* createWindow(): at start-up and on 'activate' with no window open
CreateWindow ==
  /\ mainWindow = 0
  /\ nwin < MaxWindows
  /\ nwin' = nwin + 1
  /\ mainWindow' = nwin + 1
  /\ destroyed' = FALSE
  /\ UNCHANGED <<rendererReady, logBuffer, emitted, delivered>>
  /\ UNCHANGED supVars
  /\ UNCHANGED appVars
  /\ UNCHANGED storeVars
  /\ UNCHANGED ioVars

\* the window is destroyed; its 'closed' event has not been handled yet
WindowDestroyed ==
  /\ mainWindow # 0
  /\ ~destroyed
  /\ destroyed' = TRUE
  /\ UNCHANGED <<mainWindow, rendererReady, logBuffer, emitted, delivered, nwin>>
  /\ UNCHANGED supVars
  /\ UNCHANGED appVars
  /\ UNCHANGED storeVars
  /\ UNCHANGED ioVars

\* mainWindow.on('closed')
WindowClosed ==
  /\ mainWindow # 0
  /\ destroyed
  /\ mainWindow' = 0
  /\ destroyed' = FALSE
  /\ UNCHANGED <<rendererReady, logBuffer, emitted, delivered, nwin>>
  /\ UNCHANGED supVars
  /\ UNCHANGED appVars
  /\ UNCHANGED storeVars
  /\ UNCHANGED ioVars

\* main.ts before app.whenReady() has resolved
InitHost ==
  /\ pythonManager = FALSE
  /\ appState = "running"
  /\ bootstrap = "idle"
  /\ caller = [c \in Calls |-> "none"]
  /\ resumed = {}
  /\ closedHandled = 0
  /\ host = <<>>

(***************************************************************************)
(* The supervisor under its callers.  Commands are issued one at a time:   *)
(* a new command enters when no earlier one is still in flight.            *)
(***************************************************************************)
InFlight(c) == calls[c].pc \notin {"idle", "done", "failed"}

NoCommandInFlight == \A c \in Calls : ~InFlight(c)

\* commands are numbered in the order they are issued
NextCall(c) == calls[c].pc = "idle" /\ \A d \in Calls : d < c => calls[d].pc # "idle"

IssueStart(c) == NoCommandInFlight /\ NextCall(c) /\ CallStart(c)

IssueStop(c) == NoCommandInFlight /\ NextCall(c) /\ CallStop(c)

IssueRestart(c) == NoCommandInFlight /\ NextCall(c) /\ CallRestart(c)

Next ==
  \/ \E c \in Calls : IssueStart(c)
  \/ \E c \in Calls : IssueStop(c)
  \/ \E c \in Calls : IssueRestart(c)
  \/ \E c \in Calls, h \in BOOLEAN, ok \in BOOLEAN : StartProbeResult(c, h, ok)
  \/ \E c \in Calls, h \in BOOLEAN : ReadyProbeResult(c, h)
  \/ \E c \in Calls : ReadySleepDone(c)
  \/ \E c \in Calls, ok \in BOOLEAN : ShutdownResult(c, ok)
  \/ \E c \in Calls, h \in BOOLEAN : StopProbeResult(c, h)
  \/ \E c \in Calls : StopSleepDone(c)
  \/ \E c \in Calls : TimerFire(c)
  \/ \E p \in Procs, k \in ExitKinds : ProcExit(p, k)
  \/ \E p \in Procs, prt \in Ports : ProcAnnounce(p, prt)
  \/ \E p \in Procs, prt \in Ports : ProcStderrAnnounce(p, prt)

(***************************************************************************)
(* Renderer stores: useLogStore and useUIStore                             *)
(***************************************************************************)
\* most additions to the log store and most notifications (bounds)
MaxAdds == 1300
MaxIssued == 52
\* clearLogs() is called after every ClearEvery-th addition, or not (bound)
ClearEvery == 250
\* the notifications the user opens are among the first MaxOpened (bound)
MaxOpened == 2

maxLogs == 1000
maxNotifications == 50

\* logs.slice(0, n)
slice(s, n) == SubSeq(s, 1, IF Len(s) < n THEN Len(s) ELSE n)

\* addLog() without logs.shift()
addLogNoShift(stateLogs, newLog) == Append(stateLogs, newLog)

\* the logs that addLog() stores for the state's logs and the new entry
addLog(stateLogs, newLog) ==
  LET appended == Append(stateLogs, newLog)
  IN  IF Len(appended) > maxLogs THEN Tail(appended) ELSE appended

AddLog ==
  /\ added < MaxAdds
  /\ added' = added + 1
  /\ logs' = addLog(logs, added + 1)
  /\ UNCHANGED <<notifications, unreadNotificationCount, issued>>
  /\ UNCHANGED <<supVars, logVars, appVars, ioVars>>

ClearLogs ==
  /\ added % ClearEvery = 0
  /\ logs' = <<>>
  /\ UNCHANGED <<added, notifications, unreadNotificationCount, issued>>
  /\ UNCHANGED <<supVars, logVars, appVars, ioVars>>

\* a notification is its number of issue, which stands for its id, and its
\* read flag
Notification(n) == [id |-> n, read |-> FALSE]

AddNotification ==
  /\ issued < MaxIssued
  /\ issued' = issued + 1
  /\ notifications' =
       slice(<<Notification(issued + 1)>> \o notifications, maxNotifications)
  /\ unreadNotificationCount' = unreadNotificationCount + 1
  /\ UNCHANGED <<logs, added>>
  /\ UNCHANGED <<supVars, logVars, appVars, ioVars>>

\* notifications.filter((n) => !n.read).length
Unread(ns) == Cardinality({k \in 1..Len(ns) : ~ns[k].read})

MarkNotificationRead(id) ==
  LET marked == [k \in 1..Len(notifications) |->
                   IF notifications[k].id = id
                     THEN [notifications[k] EXCEPT !.read = TRUE]
                     ELSE notifications[k]]
  IN  /\ notifications' = marked
      /\ unreadNotificationCount' = Unread(marked)
      /\ UNCHANGED <<logs, added, issued>>
      /\ UNCHANGED <<supVars, logVars, appVars, ioVars>>

ClearNotifications ==
  /\ notifications' = <<>>
  /\ unreadNotificationCount' = 0
  /\ UNCHANGED <<logs, added, issued>>
  /\ UNCHANGED <<supVars, logVars, appVars, ioVars>>

InitStore ==
  /\ logs = <<>>
  /\ added = 0
  /\ notifications = <<>>
  /\ unreadNotificationCount = 0
  /\ issued = 0


Init == InitSup /\ InitLog /\ InitHost /\ InitIo /\ InitStore /\ platform = "linux"

Spec == Init /\ [][Next]_vars

NextLog ==
  \/ SendLog
  \/ RendererReady
  \/ CreateWindow
  \/ WindowDestroyed
  \/ WindowClosed

SpecLog == Init /\ [][NextLog]_vars

(***************************************************************************)
(* The stream handlers on their own.  The supervisor has spawned its first *)
(* child and polls for readiness; the child writes lines.                  *)
(***************************************************************************)
MaxWords == 3
MaxWrites == 2
MaxChunks == 3

\* start() after the spawn of the first child (the state StartProbeResult
\* leaves after a failed first probe)
InitSpawned ==
  /\ process = 1
  /\ port = DefaultPort
  /\ isRunning = FALSE
  /\ externalBackend = FALSE
  /\ procs = [p \in Procs |-> IF p = 1 THEN "alive" ELSE "none"]
  /\ calls = [c \in Calls |->
                IF c = 1
                  THEN [IdleCall EXCEPT !.kind = "start", !.pc = "ready_probe",
                                        !.np = 2, !.child = 1]
                  ELSE IdleCall]
  /\ out = SpawnOut(1, DefaultPort)

\* the announcement the backend prints for port prt
PortLine(prt) == portToken \o Decimal(prt)

\* the words a line of the backend is made of
Words ==
  { <<"I", "N", "F", "O", ":">>, <<"D", "E", "B", "U", "G", ":">>, <<"E", "R", "R", "O", "R", ":">>, <<"W", "A", "R", "N", "I", "N", "G", ":">>, <<"w", "a", "r", "n", ":">>,
    <<"e", "r", "r", "o", "r">>, <<"E", "x", "c", "e", "p", "t", "i", "o", "n">>, <<"T", "r", "a", "c", "e", "b", "a", "c", "k">>, <<"w", "a", "r", "n", "i", "n", "g">>, <<"o", "k">>,
    PortLine(AnnouncedPort) }

\* uvicorn pads its level prefix to nine columns
Gaps == { <<" ">>, <<" ", " ", " ", " ", " ">> }

RECURSIVE Phrases(_)
Phrases(n) ==
  IF n = 1 THEN Words
  ELSE {ph \o gap \o w : ph \in Phrases(n - 1), gap \in Gaps, w \in Words}

\* the lines of at most n words
Lines(n) == UNION {Phrases(k) : k \in 1..n}

\* one line on one stream, written and not yet read
InitLines ==
  /\ InitSpawned /\ InitLog /\ InitHost /\ InitStore /\ platform = "linux"
  /\ \E s \in Streams, line \in Lines(MaxWords) :
       /\ sent = [t \in Streams |-> IF t = s THEN <<line>> ELSE <<>>]
       /\ pipe = [t \in Streams |-> IF t = s THEN line \o <<NL>> ELSE <<>>]
  /\ forwarded = <<>>
  /\ nchunks = 0
  /\ req = NoRequest

\* the line arrives whole, in one chunk
NextLines ==
  \/ StdoutData(Len(pipe["stdout"]))
  \/ StderrData(Len(pipe["stderr"]))

SpecLines == InitLines /\ [][NextLines]_vars

\* the lines written in the stream specification
StreamLines == { PortLine(AnnouncedPort), <<" ", " ", "T", "r", "a", "c", "e", "b", "a", "c", "k">>, <<"o", "k">> }

Written == Len(sent["stdout"]) + Len(sent["stderr"])

InitStream == InitSpawned /\ InitLog /\ InitHost /\ InitIo /\ InitStore /\ platform = "linux"

\* a 'data' event brings any non-empty prefix of what is in the pipe
\* (nchunks is capped by MaxChunks)
NextStream ==
  \/ \E s \in Streams, line \in StreamLines :
       Written < MaxWrites /\ ChildWrites(s, line)
  \/ \E n \in 1..Len(pipe["stdout"]) : nchunks < MaxChunks /\ StdoutData(n)
  \/ \E n \in 1..Len(pipe["stderr"]) : nchunks < MaxChunks /\ StderrData(n)

SpecStream == InitStream /\ [][NextStream]_vars

(***************************************************************************)
(* checkHealth() on its own, for every port the supervisor can hold        *)
(***************************************************************************)
InitProbe ==
  /\ process = 0
  /\ port \in ProbePorts
  /\ isRunning = FALSE
  /\ externalBackend = FALSE
  /\ procs = [p \in Procs |-> "none"]
  /\ calls = [c \in Calls |-> IdleCall]
  /\ out = <<>>
  /\ InitLog /\ InitHost /\ InitIo /\ InitStore /\ platform = "linux"

NextProbe ==
  \/ CheckHealth
  \/ \E status \in Statuses : OnResponse(status)
  \/ OnError
  \/ OnTimeout

SpecProbe == InitProbe /\ [][NextProbe]_vars

\* the renderer's log store alone
NextLogStore ==
  \/ AddLog
  \/ ClearLogs

SpecLogStore == Init /\ [][NextLogStore]_vars

\* the renderer's notifications alone
NextUiStore ==
  \/ AddNotification
  \/ \E id \in 1..MaxOpened : MarkNotificationRead(id)
  \/ ClearNotifications

SpecUiStore == Init /\ [][NextUiStore]_vars

(***************************************************************************)
(* The host application (main.ts and the python:restart handler).  One     *)
(* turn of the event loop is written as a chain of steps where a handler   *)
(* calls into the supervisor or goes on after an await: such a step is     *)
(* urgent, nothing else happens before it.  The log events of main.ts are  *)
(* kept in host; their way through the broadcaster is SpecLog.             *)
(***************************************************************************)
Platforms == {"darwin", "linux"}

Send(channel, k) == [t |-> "send", a |-> channel, b |-> "", n |-> k]
Dialog == [t |-> "dialog", a |-> "showErrorBox", b |-> "Python Backend Error", n |-> 0]

\* "mainWindow?.webContents.send(...)"
SendIfWindow(w, channel, k) == IF w # 0 THEN <<Send(channel, k)>> ELSE <<>>

Awaited(c) == caller[c] # "none" /\ c \notin resumed

Settled(c) == calls[c].pc \in {"done", "failed"}

\* the supervisor method a main.ts function calls
Calling(c) == Awaited(c) /\ calls[c].pc = "idle"

\* the promise a main.ts function awaits has settled
Resuming(c) ==
  /\ Awaited(c)
  /\ Settled(c)
  /\ \A d \in Calls : d < c => ~(Awaited(d) /\ Settled(d))

\* createWindow() has resolved and initializeApp() is about to run
Bootable == bootstrap = "idle" /\ nwin > 0

\* the last window was closed and 'window-all-closed' is about to be emitted
AllClosedDue ==
  /\ appState = "running"
  /\ mainWindow = 0
  /\ closedHandled < nwin
  /\ pythonManager => \E c \in Calls : NextCall(c)

Urgent ==
  \/ \E c \in Calls : Calling(c) \/ Resuming(c)
  \/ Bootable
  \/ mainWindow # 0 /\ destroyed
  \/ AllClosedDue

Alive == appState # "exited"

\* between two turns of the event loop
Between == Alive /\ ~Urgent

\* A polling loop is followed through all its rounds for the first command
\* as long as no other command has been issued; every other loop is
\* followed for MaxPolls unanswered rounds.  The user acts (closes the
\* window, quits, restarts, activates) during the first MaxPolls rounds of
\* a loop or when no loop is running.
MaxPolls == 2

Early == \A c \in Calls : InFlight(c) => calls[c].i < MaxPolls

UserActs == Between /\ Early

Undisturbed(c) == \A d \in Calls : d # c => calls[d].pc = "idle"

PollFollowed(c, healthy) ==
  healthy \/ Undisturbed(c) \/ calls[c].i < MaxPolls

\* app.whenReady(): createWindow() (lines 341-348)
LaunchWindow ==
  /\ Alive
  /\ nwin = 0
  /\ CreateWindow

\* initializeApp() up to "await pythonManager.start()" (lines 302-316)
InitializeApp(c) ==
  /\ Alive
  /\ Bootable
  /\ NextCall(c)
  /\ pythonManager' = TRUE
  /\ bootstrap' = "awaiting"
  /\ caller' = [caller EXCEPT ![c] = "initializeApp"]
  /\ host' = host \o SendIfWindow(mainWindow, "python:starting", 0)
                  \o <<Log("info", "Starting Python backend...")>>
  /\ UNCHANGED <<appState, platform, resumed, closedHandled>>
  /\ UNCHANGED <<supVars, logVars, ioVars, storeVars>>

\* the call a main.ts function makes into the supervisor
Enter(c) ==
  /\ Alive
  /\ Calling(c)
  /\ CASE caller[c] = "initializeApp" -> CallStart(c)
       [] caller[c] = "python:restart" -> CallRestart(c)
       [] OTHER -> CallStop(c)

\* initializeApp() after start() resolved (lines 318-322): the arguments of
\* the optional call are evaluated only if mainWindow is set, and
\* pythonManager.getPort() throws a TypeError if pythonManager is null
ReadyThrows == ~pythonManager

ReadyEffects(w, prt) ==
  SendIfWindow(w, "python:ready", prt)
    \o <<LogN("info", "Python backend started successfully on port", prt)>>

\* the catch block of initializeApp() (lines 323-331)
CatchEffects(w) ==
  <<Log("error", "Failed to start Python backend")>>
    \o SendIfWindow(w, "python:error", 0)
    \o <<Dialog>>

\* the statements after "await pythonManager.stop()" in 'window-all-closed'
\* (lines 363-369): app.quit() emits 'before-quit', whose handler finds
\* pythonManager null
QuitsWhenAllClosed(plat) == plat # "darwin"

\* what a main.ts function does once the promise it awaited has settled
Resume(c) ==
  /\ Alive
  /\ Resuming(c)
  /\ resumed' = resumed \cup {c}
  /\ CASE caller[c] = "initializeApp" ->
            /\ IF calls[c].pc = "done" /\ ~ReadyThrows
                 THEN /\ host' = host \o ReadyEffects(mainWindow, port)
                      /\ bootstrap' = "ready"
                 ELSE /\ host' = host \o CatchEffects(mainWindow)
                      /\ bootstrap' = "error"
            /\ UNCHANGED <<pythonManager, appState>>
       [] caller[c] = "python:restart" ->
            UNCHANGED <<pythonManager, appState, bootstrap, host>>
       [] caller[c] = "window-all-closed" ->
            /\ pythonManager' = FALSE
            /\ appState' = IF QuitsWhenAllClosed(platform) /\ appState = "running"
                             THEN "quitting" ELSE appState
            /\ UNCHANGED <<bootstrap, host>>
       [] caller[c] = "before-quit" ->
            /\ pythonManager' = FALSE
            /\ UNCHANGED <<appState, bootstrap, host>>
  /\ UNCHANGED <<platform, caller, closedHandled>>
  /\ UNCHANGED <<supVars, logVars, ioVars, storeVars>>

\* ipcMain.handle('python:restart') (ipcHandlers.ts lines 132-137), invoked
\* from the renderer of the open window
IpcRestart(c) ==
  /\ UserActs
  /\ WindowLive
  /\ pythonManager
  /\ NextCall(c)
  /\ caller' = [caller EXCEPT ![c] = "python:restart"]
  /\ UNCHANGED <<pythonManager, appState, platform, bootstrap, resumed,
                 closedHandled, host>>
  /\ UNCHANGED <<supVars, logVars, ioVars, storeVars>>

\* app.on('window-all-closed') up to its await (lines 359-364)
WindowAllClosed(c) ==
  /\ AllClosedDue
  /\ closedHandled' = nwin
  /\ IF pythonManager
       THEN /\ NextCall(c)
            /\ caller' = [caller EXCEPT ![c] = "window-all-closed"]
            /\ UNCHANGED appState
       ELSE /\ c = 1
            /\ appState' = IF QuitsWhenAllClosed(platform)
                             THEN "quitting" ELSE appState
            /\ UNCHANGED caller
  /\ UNCHANGED <<pythonManager, platform, bootstrap, resumed, host>>
  /\ UNCHANGED <<supVars, logVars, ioVars, storeVars>>

\* the user quits the application: 'before-quit' up to its await (lines
\* 372-377).  Electron does not wait for the promise of the listener.
BeforeQuit(c) ==
  /\ UserActs
  /\ appState = "running"
  /\ appState' = "quitting"
  /\ IF pythonManager
       THEN /\ NextCall(c)
            /\ caller' = [caller EXCEPT ![c] = "before-quit"]
       ELSE /\ c = 1
            /\ UNCHANGED caller
  /\ UNCHANGED <<pythonManager, platform, bootstrap, resumed, closedHandled,
                 host>>
  /\ UNCHANGED <<supVars, logVars, ioVars, storeVars>>

\* the host process ends after 'before-quit': nothing runs afterwards
AppExit ==
  /\ Between
  /\ appState = "quitting"
  /\ appState' = "exited"
  /\ UNCHANGED <<pythonManager, platform, bootstrap, caller, resumed,
                 closedHandled, host>>
  /\ UNCHANGED <<supVars, logVars, ioVars, storeVars>>

\* app.on('activate') (lines 351-356), registered once initializeApp() is
\* over; the event exists on darwin only
Activate ==
  /\ UserActs
  /\ appState = "running"
  /\ platform = "darwin"
  /\ bootstrap \in {"ready", "error"}
  /\ CreateWindow

\* the user closes the window
CloseWindow ==
  /\ UserActs
  /\ WindowDestroyed

\* the 'closed' listener of createWindow() (lines 297-299)
OnClosed ==
  /\ Alive
  /\ WindowClosed

NextApp ==
  \/ LaunchWindow
  \/ \E c \in Calls : InitializeApp(c)
  \/ \E c \in Calls : Enter(c)
  \/ \E c \in Calls : Resume(c)
  \/ \E c \in Calls : IpcRestart(c)
  \/ \E c \in Calls : WindowAllClosed(c)
  \/ \E c \in Calls : BeforeQuit(c)
  \/ AppExit
  \/ Activate
  \/ CloseWindow
  \/ OnClosed
  \/ \E c \in Calls, h \in BOOLEAN, ok \in BOOLEAN :
       Between /\ StartProbeResult(c, h, ok)
  \/ \E c \in Calls, h \in BOOLEAN :
       Between /\ PollFollowed(c, h) /\ ReadyProbeResult(c, h)
  \/ \E c \in Calls : Between /\ ReadySleepDone(c)
  \/ \E c \in Calls, ok \in BOOLEAN : Between /\ ShutdownResult(c, ok)
  \/ \E c \in Calls, h \in BOOLEAN :
       Between /\ PollFollowed(c, ~h) /\ StopProbeResult(c, h)
  \/ \E c \in Calls : Between /\ StopSleepDone(c)
  \/ \E c \in Calls : Between /\ TimerFire(c)
  \/ \E p \in Procs, k \in ExitKinds : Between /\ ProcExit(p, k)
  \/ \E p \in Procs, prt \in Ports : Between /\ ProcAnnounce(p, prt)

InitApp ==
  InitSup /\ InitLog /\ InitHost /\ InitIo /\ InitStore /\ platform \in Platforms

SpecApp == InitApp /\ [][NextApp]_vars

(***************************************************************************)
(* Properties                                                              *)
(***************************************************************************)
SentSignal(e, sig) == IsKill(e) /\ e.a = sig

\* C1  Attach precedence: when the health probe start() issues before any
\* spawn answers healthy, that start() spawns nothing and creates no process
\* handle, and the supervisor becomes running with externalBackend = true.
C1_AttachPrecedence ==
  [][\A c \in Calls, ok \in BOOLEAN :
       StartProbeResult(c, TRUE, ok) =>
         /\ Count(out', IsSpawn) = 0
         /\ procs' = procs
         /\ process' = process
         /\ isRunning'
         /\ externalBackend'
         /\ calls'[c].pc = "done"
         /\ calls'[c].child = calls[c].child]_vars

C1_Witness ==
  \E c \in Calls :
    /\ calls[c].kind = "start"
    /\ calls[c].pc = "done"
    /\ isRunning /\ externalBackend
    /\ process = 0
    /\ \A p \in Procs : procs[p] = "none"
    /\ out = <<Log("info", "already running externally")>>

\* C2 (as stated)  Retry bound: when start() fails with the start-up timeout
\* it has issued exactly maxRetries health probes.
C2_Original ==
  \A c \in Calls : calls[c].pc = "failed" => calls[c].np = maxRetries

\* C2 (amended)  Retry bound: when start() fails with the start-up timeout,
\* waitForReady() has made exactly maxRetries polling attempts, and start()
\* has issued these and the one attach probe before the spawn: maxRetries + 1
\* health probes.
C2_RetryBound ==
  \A c \in Calls :
    calls[c].pc = "failed" =>
      /\ calls[c].i = maxRetries
      /\ calls[c].np = maxRetries + 1
      /\ calls[c].child # 0

C2_Witness ==
  \E c \in Calls :
    /\ calls[c].pc = "failed"
    /\ procs[calls[c].child] = "alive"
    /\ out = <<Log("error", "failed to start within 30 seconds")>>

\* C3  Spawn failure: once the process spawned by a start() has reported a
\* spawn error, that start() issues no further health probe of its retry
\* budget (it has failed with the spawn failure).
C3_SpawnFailure ==
  [][\A c \in Calls :
       (calls[c].child # 0 /\ procs[calls[c].child] = "errored")
         => calls'[c].np <= calls[c].np]_vars

\* C4  External stop confirmation: whatever the outcome of the HTTP shutdown
\* request, stop() goes on to poll the health endpoint before it marks the
\* supervisor stopped.
C4_ExternalStopConfirmation ==
  [][\A c \in Calls :
       (calls[c].pc = "stop_req" /\ calls'[c].pc # "stop_req")
         => /\ calls'[c].pc = "stop_probe"
            /\ Count(out', IsProbe) = 1
            /\ isRunning' = isRunning
            /\ externalBackend']_vars

\* C5  Escalation: SIGKILL is sent only by the grace timer armed at the
\* SIGTERM, directly after a warn-level log event; the timer kills the
\* process its stop() sent SIGTERM to when that process has not exited, and
\* sends no SIGKILL when that process has already exited.
TimerFires(c) == calls[c].timer /\ ~calls'[c].timer

C5_Escalation ==
  [][/\ \A k \in 1..Len(out') :
          SentSignal(out'[k], "SIGKILL") =>
            /\ \E c \in Calls : TimerFires(c)
            /\ k > 1
            /\ out'[k - 1] = Log("warn", "Force killing Python backend...")
     /\ \A c \in Calls :
          TimerFires(c) =>
            /\ procs[calls[c].target] \in {"alive", "killed"}
                 => /\ Len(out') = 2
                    /\ out'[2] = Kill(calls[c].target, "SIGKILL")
            /\ procs[calls[c].target] = "exited"
                 => Count(out', IsKill) = 0]_vars

\* C6  Crash detection: every exit of an owned process, whatever the state
\* it occurs in, clears the process handle and leaves the supervisor not
\* running; the exit is logged first, with its code, at info level for
\* code 0 and at error level for a nonzero code or a signal.
C6_CrashDetection ==
  [][\A p \in Procs, k \in ExitKinds :
       ProcExit(p, k) =>
         /\ process' = 0
         /\ ~isRunning'
         /\ Len(out') >= 1
         /\ out'[1] = LogN(IF k = "zero" THEN "info" ELSE "error",
                           "Python backend exited with code", ExitCode(k))]_vars

\* an exit nobody asked for: no stop() was waiting, only the exit is logged
C6_Witness ==
  /\ \E p \in Procs : procs[p] = "exited"
  /\ \A c \in Calls : calls[c].kind \notin {"stop", "restart"}
  /\ \E c \in Calls : calls[c].kind = "start" /\ calls[c].pc = "done"
  /\ out = <<LogN("error", "Python backend exited with code", -1)>>
  /\ process = 0
  /\ ~isRunning

\* C9  start() idempotence: start() called while the supervisor is running
\* returns at once; it issues no health probe, spawns nothing and leaves
\* process, externalBackend, isRunning and port unchanged.
C9_StartIdempotent ==
  [][\A c \in Calls :
       (calls[c].pc = "idle" /\ calls'[c].kind = "start" /\ isRunning)
         => /\ calls'[c].pc = "done"
            /\ Count(out', IsProbe) = 0
            /\ Count(out', IsSpawn) = 0
            /\ UNCHANGED <<process, externalBackend, isRunning, port, procs>>]_vars

C9_Witness ==
  \E c, d \in Calls :
    /\ c < d
    /\ calls[c].kind = "start" /\ calls[c].pc = "done"
    /\ calls[d].kind = "start" /\ calls[d].pc = "done"
    /\ isRunning
    /\ process # 0
    /\ out = <<Log("info", "already running")>>

\* C10  stop() idempotence: stop() called on a stopped supervisor (not
\* running, no process handle, not attached to an external backend) sends no
\* signal and no shutdown request, changes no field of the supervisor and
\* completes normally.
Stopped == ~isRunning /\ process = 0 /\ ~externalBackend

C10_StopIdempotent ==
  [][\A c \in Calls :
       (calls[c].pc = "idle" /\ calls'[c].kind = "stop" /\ Stopped)
         => /\ calls'[c].pc = "done"
            /\ Count(out', IsKill) = 0
            /\ Count(out', IsShutdownReq) = 0
            /\ Count(out', IsProbe) = 0
            /\ UNCHANGED <<process, externalBackend, isRunning, port, procs>>]_vars

\* two stop() calls in a row on a supervisor that was never started
C10_Witness ==
  \E c, d \in Calls :
    /\ c < d
    /\ calls[c].kind = "stop" /\ calls[c].pc = "done"
    /\ calls[d].kind = "stop" /\ calls[d].pc = "done"
    /\ \A p \in Procs : procs[p] = "none"
    /\ Stopped
    /\ out = <<Log("info", "Stopping Python backend...")>>

IsPrefix(s, t) == Len(s) <= Len(t) /\ SubSeq(t, 1, Len(s)) = s

Ids(s) == {s[k] : k \in 1..Len(s)}

DeliveredIds == {delivered[k].id : k \in 1..Len(delivered)}

\* the renderer-ready signal is handled for the first time, with a window
FirstAttach == ~rendererReady /\ rendererReady' /\ WindowLive

\* C7  Log ordering: the first attach of the renderer delivers every log
\* emitted before it, in emission order and each exactly once, and leaves the
\* buffer empty; deliveries are only ever appended, so these logs precede
\* every later one; a log emitted while the renderer is attached is sent at
\* once and is not buffered.
C7_LogOrdering ==
  [][/\ FirstAttach =>
          /\ delivered' = [k \in 1..emitted |->
                             Delivery(mainWindow, k, "flushLogBuffer")]
          /\ logBuffer' = <<>>
     /\ IsPrefix(delivered, delivered')
     /\ (emitted' = emitted + 1 /\ rendererReady /\ WindowLive) =>
          /\ delivered' = Append(delivered,
                                 Delivery(mainWindow, emitted', "sendLog"))
          /\ logBuffer' = logBuffer]_vars

\* two logs flushed by the attach, a third one delivered live after it
C7_Witness ==
  /\ delivered = <<Delivery(1, 1, "flushLogBuffer"),
                   Delivery(1, 2, "flushLogBuffer"),
                   Delivery(1, 3, "sendLog")>>
  /\ logBuffer = <<>>
  /\ rendererReady

\* C8  Log buffer invariant: no log is delivered twice, and every log
\* emitted so far is in the buffer or has been delivered, never both and
\* never neither.
C8_LogBufferInvariant ==
  /\ \A j, k \in 1..Len(delivered) :
       j # k => delivered[j].id # delivered[k].id
  /\ \A j, k \in 1..Len(logBuffer) : j # k => logBuffer[j] # logBuffer[k]
  /\ Ids(logBuffer) \cup DeliveredIds = 1..emitted
  /\ Ids(logBuffer) \cap DeliveredIds = {}

\* a log was delivered, the window was closed, a later log is buffered and
\* the renderer-ready flag is set while no window exists
C8_Witness ==
  /\ rendererReady
  /\ mainWindow = 0
  /\ delivered # <<>>
  /\ logBuffer # <<>>
  /\ emitted = MaxLogs


(***************************************************************************)
(* Start and stop of an owned and of an external backend                   *)
(***************************************************************************)
HttpTargets(s, prt) == \A k \in 1..Len(s) : s[k].t = "http" => s[k].n = prt

Owned(p) == process = p /\ p # 0 /\ ~externalBackend

EntersStop(c) == calls[c].pc = "idle" /\ calls'[c].kind \in {"stop", "restart"}

\* C12 Owned stop: stop() on an owned process sends SIGTERM and nothing
\* stronger, then waits; it leaves the wait only in the turn in which the
\* exit of that process is observed, and then the handle is cleared and
\* the supervisor reports not running.
C12_OwnedStop ==
  [][ \A c \in Calls :
        /\ (EntersStop(c) /\ process # 0 /\ ~externalBackend)
             => /\ out' = <<Log("info", "Stopping Python backend..."),
                            Kill(process, "SIGTERM"), ArmTimer(c)>>
                /\ calls'[c].pc = "stop_exit"
                /\ calls'[c].target = process
        /\ (calls[c].pc = "stop_exit" /\ calls'[c].pc # "stop_exit")
             => /\ procs[calls[c].target] \in {"alive", "killed"}
                /\ procs'[calls[c].target] = "exited"
                /\ process' = 0
                /\ ~isRunning' ]_vars

\* a stop() of a running owned process has settled on its exit
C12_Witness ==
  \E c \in Calls :
    /\ calls[c].kind = "stop"
    /\ calls[c].pc = "done"
    /\ calls[c].target # 0
    /\ procs[calls[c].target] = "exited"
    /\ \E k \in 1..Len(out) : out[k] = Log("info", "Python backend stopped")
    /\ process = 0
    /\ ~isRunning

InExternalStop(rec) == rec.pc \in {"stop_req", "stop_probe", "stop_sleep"}

\* the number of turns an external stop() still has before it settles
StopRank(rec) ==
  CASE rec.pc = "stop_req" -> 2 * maxStopRetries + 1
    [] rec.pc = "stop_probe" -> 2 * (maxStopRetries - rec.i)
    [] rec.pc = "stop_sleep" -> 2 * (maxStopRetries - rec.i) - 1
    [] OTHER -> 0

\* C13 External stop always ends Stopped: stop() on an External backend
\* issues one shutdown request and afterwards only confirmation probes, at
\* most 20 of them; every turn of it brings it closer to settling, the
\* first probe that is not healthy settles it, and when it settles the
\* supervisor is not running and not External, whatever was answered.
C13_ExternalStop ==
  [][ \A c \in Calls :
        /\ (EntersStop(c) /\ externalBackend)
             => /\ Count(out', IsShutdownReq) = 1
                /\ calls'[c].pc = "stop_req"
        /\ InExternalStop(calls[c]) /\ calls'[c] # calls[c]
             => /\ StopRank(calls'[c]) < StopRank(calls[c])
                /\ InExternalStop(calls'[c])
                     => /\ Count(out', IsShutdownReq) = 0
                        /\ Count(out', IsProbe) <= 1
                        /\ calls'[c].i < maxStopRetries
                /\ ~InExternalStop(calls'[c])
                     => ~isRunning' /\ ~externalBackend'
        /\ StopProbeResult(c, FALSE) => ~InExternalStop(calls'[c]) ]_vars

\* the twentieth confirmation probe has answered healthy
C13_Witness ==
  \E c \in Calls :
    /\ calls[c].kind = "stop"
    /\ calls[c].pc = "stop_sleep"
    /\ calls[c].i = maxStopRetries - 1
    /\ externalBackend
    /\ isRunning

\* C14 Single handle and protocol by ownership: the External flag and a
\* process handle are never both set; signals are sent only to the process
\* the supervisor holds, and only while it is not External; the shutdown
\* request is sent only while the supervisor holds no process of its own.
C14_SingleHandle ==
  /\ [](~(externalBackend /\ process # 0))
  /\ [][ \A k \in 1..Len(out') :
           /\ IsKill(out'[k]) => ~externalBackend /\ out'[k].n = process
           /\ IsShutdownReq(out'[k]) => externalBackend /\ process = 0 ]_vars

InStop(rec) == InExternalStop(rec) \/ rec.pc = "stop_exit"

AnnouncementLogged(s, prt) ==
  \E k \in 1..Len(s) :
    s[k].t = "log" /\ s[k].b = "BACKEND_PORT:" /\ s[k].n = prt

Running(p) == procs[p] \in {"alive", "killed"}

\* C15 One backend process: under the calls the application makes
\* (initializeApp, python:restart, the teardown handlers) at most one
\* spawned process is alive at any time, and the supervisor's handle is
\* never moved away from a process that is still alive.
C15_OneProcess ==
  /\ [](Cardinality({p \in Procs : Running(p)}) <= 1)
  /\ [][ (process # 0 /\ process' # process)
           => procs'[process] \notin {"alive", "killed"} ]_vars

Teardown == {"window-all-closed", "before-quit"}

\* a stop() waiting for the exit of a process that was never spawned
Stuck(c) == calls[c].pc = "stop_exit" /\ procs[calls[c].target] = "errored"

\* C17 Teardown waits for stop: the host process has not exited while a
\* stop() called by the window-all-closed or the before-quit handler is
\* still unsettled (a stop() that can never settle set aside).
C17_TeardownWaits ==
  appState = "exited" =>
    \A c \in Calls : (caller[c] \in Teardown /\ ~Stuck(c)) => Settled(c)

\* C18 Deferred stop on darwin: closing all windows calls no stop(), and
\* while the application is running after its bootstrap the supervisor is
\* still referenced, so it is there when a window is re-created.
C18_DeferredStop ==
  platform = "darwin" =>
    /\ \A c \in Calls : caller[c] # "window-all-closed"
    /\ (appState = "running" /\ bootstrap # "idle") => pythonManager

Sends(channel) == {k \in 1..Len(host) : host[k].t = "send" /\ host[k].a = channel}

Dialogs == {k \in 1..Len(host) : host[k] = Dialog}

BootCall == CHOOSE c \in Calls : caller[c] = "initializeApp"

\* C19 Bootstrapper notifications: 'python:starting' is sent before start()
\* is called; once start() has settled exactly one of 'python:ready' and
\* 'python:error' has been sent, 'python:ready' with the supervisor's port
\* if start() resolved (and then no dialog is shown), 'python:error' and
\* the error dialog if it failed; the bootstrap itself never terminates
\* the application.
C19_Notifications ==
  /\ [](bootstrap # "idle" =>
          /\ host[1] = Send("python:starting", 0)
          /\ calls[BootCall].kind \in {"none", "start"})
  /\ [](bootstrap = "awaiting" =>
          Sends("python:ready") \cup Sends("python:error") \cup Dialogs = {})
  /\ [](bootstrap \in {"ready", "error"} =>
          /\ Cardinality(Sends("python:ready") \cup Sends("python:error")) = 1
          /\ calls[BootCall].pc = "done"
               => Sends("python:ready") # {} /\ Dialogs = {}
          /\ calls[BootCall].pc = "failed"
               => Sends("python:error") # {} /\ Cardinality(Dialogs) = 1)
  /\ [][ \A c \in Calls :
           (Resume(c) /\ caller[c] = "initializeApp")
             => /\ appState' = appState
                /\ \A k \in Sends("python:ready")' : host'[k].n = port ]_vars

(***************************************************************************)
(* The states of the supervisor                                            *)
(***************************************************************************)
\* C24 Stopping state: while a stop() is in progress (shutdown request,
\* confirmation polling or wait for the exit) the supervisor does not
\* report itself as running.
C24_StoppingNotRunning ==
  \A c \in Calls : InStop(calls[c]) => ~isRunning

\* C25 Callers serialize supervisor commands: at no time are two of the
\* start(), stop() and restart() invocations made by the application in
\* flight at once.
C25_Serialized ==
  Cardinality({c \in Calls : InFlight(c)}) <= 1

\* C28 Escalation timer targets only its own process: a signal sent by the
\* timer of a stop() goes to the process that this stop() sent SIGTERM to.
C28_TimerTarget ==
  [][ \A c \in Calls :
        TimerFires(c) =>
          \A k \in 1..Len(out') :
            IsKill(out'[k]) => out'[k].n = calls[c].target ]_vars

\* C29 stop() always settles: a stop() that waits for the exit of a process
\* waits for a process that is there to exit (it was spawned and has not
\* exited), so that the exit event it resolves in can still come.
C29_StopSettles ==
  \A c \in Calls : calls[c].pc = "stop_exit" => Running(calls[c].target)

\* C30 Running implies a handle: whenever the supervisor reports running
\* it is attached as External or holds the handle of a spawned process
\* that has not exited.
C30_RunningHasHandle ==
  isRunning => externalBackend \/ (process # 0 /\ Running(process))

(***************************************************************************)
(* The log broadcaster after the window has gone                           *)
(***************************************************************************)
\* C27 Detach resumes buffering: while there is no live window, a log that
\* is emitted is appended to the buffer, and no step sends anything or
\* takes anything out of the buffer; the renderer-ready signal handled
\* with a live window sends the whole buffer to it, in buffer order, and
\* leaves the buffer empty.
C27_DetachBuffers ==
  [][/\ (emitted' = emitted + 1 /\ ~WindowLive) =>
          logBuffer' = Append(logBuffer, emitted')
     /\ ~WindowLive =>
          /\ IsPrefix(logBuffer, logBuffer')
          /\ delivered' = delivered
     /\ (RendererReady /\ WindowLive) =>
          /\ delivered' = delivered \o FlushSends(mainWindow, logBuffer)
          /\ logBuffer' = <<>>]_vars

\* a log went to the first window, the window was closed, two more logs
\* were buffered and then flushed to the second window, in their order
C27_Witness ==
  /\ delivered = <<Delivery(1, 1, "sendLog"),
                   Delivery(2, 2, "flushLogBuffer"),
                   Delivery(2, 3, "flushLogBuffer")>>
  /\ logBuffer = <<>>

(***************************************************************************)
(* Classification and forwarding of the child's output                     *)
(***************************************************************************)
Levels == {"debug", "info", "warn", "error"}

LineEventsOf(s) ==
  SelectSeq(forwarded, LAMBDA e : e.stream = s /\ e.at = "line")

ErrorVocabulary(l) ==
  includes(l, errorWord) \/ includes(l, exceptionWord)
    \/ includes(l, tracebackWord)

WarnVocabulary(l) == includes(l, warningWord) \/ includes(l, warnWord)

\* a line with no level token and no vocabulary anywhere ("error:",
\* "warning:" and "warn:" contain a word of the vocabulary)
Unmarked(l) ==
  /\ ~includes(l, infoPrefix) /\ ~includes(l, debugPrefix)
  /\ ~ErrorVocabulary(l) /\ ~WarnVocabulary(l)

\* the level by the stated precedence: a leading prefix first, then the
\* error vocabulary, then the warning vocabulary, then the default
Precedence(text, default) ==
  LET l == toLowerCase(text) IN
  IF startsWith(l, infoPrefix) THEN "info"
  ELSE IF startsWith(l, debugPrefix) THEN "debug"
  ELSE IF startsWith(l, errorPrefix) THEN "error"
  ELSE IF startsWith(l, warningPrefix) \/ startsWith(l, warnPrefix) THEN "warn"
  ELSE IF ErrorVocabulary(l) THEN "error"
  ELSE IF WarnVocabulary(l) THEN "warn"
  ELSE default

\* C21 Classification precedence: every forwarded line has the level of
\* its leading level prefix (info:, debug:, error:, warning:/warn:, in any
\* case) whatever else it contains; without such a prefix it is error if
\* it contains error vocabulary, else warn if it contains warning
\* vocabulary, else the default of its stream.
C21_Precedence ==
  \A k \in 1..Len(forwarded) :
    forwarded[k].at = "line" =>
      forwarded[k].level =
        Precedence(forwarded[k].text, DefaultLevel(forwarded[k].stream))

\* C22 Classification defaults and examples: a forwarded line beginning
\* with "ERROR:" is error, one beginning with "WARNING:" and free of error
\* vocabulary is warn, one with no recognised prefix or vocabulary is info
\* from stdout and warn from stderr, and the level is always one of debug,
\* info, warn and error.
C22_Defaults ==
  \A k \in 1..Len(forwarded) :
    LET e == forwarded[k]
        l == toLowerCase(e.text)
    IN e.at = "line" =>
         /\ e.level \in Levels
         /\ startsWith(e.text, <<"E", "R", "R", "O", "R", ":">>) => e.level = "error"
         /\ (startsWith(e.text, <<"W", "A", "R", "N", "I", "N", "G", ":">>) /\ ~ErrorVocabulary(l))
              => e.level = "warn"
         /\ Unmarked(l) => e.level = DefaultLevel(e.stream)

\* what the log callback should have got from stream s: one event for
\* each line written, with the level of the line
Expected(s) ==
  [k \in 1..Len(sent[s]) |->
     [level |-> detectLogLevel(sent[s][k], DefaultLevel(s)),
      text |-> trim(sent[s][k])]]

Got(s) ==
  [k \in 1..Len(LineEventsOf(s)) |->
     [level |-> LineEventsOf(s)[k].level, text |-> trim(LineEventsOf(s)[k].text)]]

\* C26 Per-stream forwarding: once everything a stream carried has been
\* read, the log callback has got exactly one event for each line written
\* to that stream, with the text of the line (white space around it set
\* aside) and its level, in the order the lines were written.
C26_Forwarding ==
  \A s \in Streams : pipe[s] = <<>> => Got(s) = Expected(s)

(***************************************************************************)
(* The health probe                                                        *)
(***************************************************************************)
Answered200 ==
  req.heard # <<>> /\ req.heard[1] = Heard("response", 200)

C31_CleanupOnFailure ==
  [][ \A c \in Calls :
        (calls[c].pc # "failed" /\ calls'[c].pc = "failed") =>
          /\ process' = 0
          /\ procs'[calls'[c].child] \notin {"alive", "killed"} ]_vars

\* C33 Port is changed only by an announcement: once everything the child
\* wrote to stdout has been read, the port is the default one if no
\* announcement was written, and else the port of the last announcement
\* written.
C33_PortFollowsAnnouncement ==
  pipe["stdout"] = <<>> => port = PortAfter(sent["stdout"], DefaultPort)

(***************************************************************************)
(* Logs across the re-creation of the window                               *)
(***************************************************************************)
\* the first log was buffered and then flushed to the first window, at the
\* ready signal of its renderer
FirstLogFlushed ==
  delivered # <<>> /\ delivered[1] = Delivery(1, 1, "flushLogBuffer")

\* C32 Emission order across re-attach: when the first log has gone to
\* the first window at its attach, then over later emissions, window close,
\* window re-creation and renderer-ready signals the logs sent to the
\* windows are in emission order: no log is delivered after a log that
\* was emitted later.
C32_EmissionOrder ==
  FirstLogFlushed =>
    \A j, k \in 1..Len(delivered) :
      j < k => delivered[j].id < delivered[k].id

\* the store holds the latest additions, oldest first
LatestInOrder ==
  \A k \in 1..Len(logs) : logs[k] = added - Len(logs) + k

\* C34 Renderer log store bound: after any sequence of addLog and clearLogs
\* calls the log store holds at most maxLogs (1000) entries, they are the
\* most recently added entries in the order of their addition, and an addLog
\* call on a full store discards one entry, the oldest, and no entry
\* otherwise.
C34_LogStoreBound ==
  /\ [](Len(logs) <= maxLogs /\ LatestInOrder)
  /\ [][ added' = added + 1 =>
           Len(logs') = IF Len(logs) < maxLogs THEN Len(logs) + 1
                                               ELSE maxLogs ]_vars

\* the store is full and its oldest entries have been discarded
C34_Witness == Len(logs) = maxLogs /\ logs[1] > 2

\* C35 Unread notification count: after any sequence of addNotification,
\* markNotificationRead and clearNotifications calls unreadNotificationCount
\* is the number of notifications of the list that are not read, and the
\* list holds at most 50 notifications.
C35_UnreadCount ==
  /\ unreadNotificationCount = Unread(notifications)
  /\ Len(notifications) <= 50

=============================================================================
